---- MODULE Spec2Model ----
(***************************************************************************)
(* The content-submission request handler of the CMS form                  *)
(* (src/src/mocks/handlers.ts, submitContent): POST /api/cms/content.      *)
(*                                                                         *)
(* A request body is JSON.  A JSON value is modelled as a tagged record    *)
(* [t, v]: t is the JavaScript type, v the text of the value as a sequence *)
(* of pieces (for a string: its characters).  An object is a record over   *)
(* Keys; a key that the object does not carry holds Undefined.             *)
(*                                                                         *)
(* Beside the handler: its client (services/api.service.ts,                *)
(* submitCMSContent), the form that calls it (components/CMSForm.tsx with  *)
(* FormFields/BasicInfoFields.tsx and schemas/cms.schema.ts) and the slug  *)
(* function (utils/generateSlug.ts).  Spec and SpecInputs run the handler, *)
(* SpecForm the form, SpecSlug the slug function.                          *)
(***************************************************************************)
EXTENDS Integers, Sequences, FiniteSets, TLC

VARIABLES
    mode,   \* the workload: which bodies callers send, and how many calls
    calls,  \* the calls of the handler, in the order of their invocation
    now,    \* the system clock, milliseconds since the epoch (Date.now())
    form,   \* the CMSForm component: field values, UI state, pending request
    slugCall \* a call of generateSlug: its argument and its result

vars == <<mode, calls, now, form, slugCall>>

----------------------------------------------------------------------------
(* Bounds of the model *)

NumCalls == 2        \* calls a caller makes in the concurrent workload
MaxTicks == 2        \* milliseconds the clock may advance during a run
StartTime == 998     \* the clock at the start (one tick before a new second)
LongHeadingLen == 61 \* length of the long sample heading
LongDescriptionLen == 161 \* length of the long sample description

(* Program constants *)

MinHeadingLength == 3
WordsPerMinute == 200
SeoTitleLength == 60
SeoDescriptionLength == 160

----------------------------------------------------------------------------
(* JSON values *)

Str(s) == [t |-> "string", v |-> s]
Num(n) == [t |-> "number", v |-> <<ToString(n)>>]
Null == [t |-> "null", v |-> <<>>]
Undefined == [t |-> "undefined", v |-> <<>>]

IsString(x) == x.t = "string"

\* JavaScript truthiness (the operand of `!`): undefined, null, "" and 0 are
\* falsy, every other string or number is truthy.
Truthy(x) ==
    CASE x.t = "undefined" -> FALSE
      [] x.t = "null" -> FALSE
      [] x.t = "string" -> x.v # <<>>
      [] x.t = "number" -> x.v # <<"0">>

\* The characters String.prototype.trim strips and the regexp class \s matches.
Whitespace == {" ", "\t", "\n"}

Min(a, b) == IF a < b THEN a ELSE b
Max(a, b) == IF a > b THEN a ELSE b

\* String.prototype.trim
Trim(s) ==
    LET keep == {i \in 1..Len(s) : s[i] \notin Whitespace}
    IN  IF keep = {} THEN <<>>
        ELSE LET lo == CHOOSE i \in keep : \A j \in keep : i <= j
                 hi == CHOOSE i \in keep : \A j \in keep : j <= i
             IN  SubSeq(s, lo, hi)

\* String.prototype.substring(0, n)
Substring(s, n) == SubSeq(s, 1, Min(n, Len(s)))

\* String.prototype.split(/\s+/): the pieces of s between the maximal runs of
\* whitespace; a run at the start or the end of s leaves an empty piece there,
\* and the empty string has one empty piece.  SplitRange gives the pieces of
\* s[lo..hi], by halves: the last piece of the left half and the first piece
\* of the right half are one piece, and when a run of whitespace spans the
\* middle the two empty pieces around it are one separator.
RECURSIVE SplitRange(_, _, _)
SplitRange(s, lo, hi) ==
    IF lo > hi THEN << <<>> >>
    ELSE IF lo = hi
         THEN IF s[lo] \in Whitespace THEN << <<>>, <<>> >> ELSE << <<s[lo]>> >>
    ELSE LET mid == (lo + hi) \div 2
             left == SplitRange(s, lo, mid)
             right == SplitRange(s, mid + 1, hi)
             front == SubSeq(left, 1, Len(left) - 1)
         IN  IF s[mid] \in Whitespace /\ s[mid + 1] \in Whitespace
             THEN front \o Tail(right)
             ELSE front \o <<left[Len(left)] \o Head(right)>> \o Tail(right)

Split(s) == SplitRange(s, 1, Len(s))

\* Array.prototype.filter((word) => word.length > 0)
NonEmptyWords(words) == SelectSeq(words, LAMBDA w : Len(w) > 0)

\* Math.ceil(a / b) for naturals a and b > 0
CeilDiv(a, b) == (a + b - 1) \div b

----------------------------------------------------------------------------
(* Objects: the parsed request body (CMSFormData) and the record returned   *)
(* (CMSContentData).                                                        *)

FormKeys == {"heading", "description", "content", "seo_title",
             "seo_description", "author"}
ServerKeys == {"id", "created_at", "updated_at", "read_time_minutes"}
Keys == FormKeys \cup ServerKeys

EmptyObject == [k \in Keys |-> Undefined]

\* The attributes an object carries
Has(obj, k) == obj[k] # Undefined

\* What a handler expression evaluates to when it throws a TypeError
Thrown == [t |-> "throw", v |-> <<>>]

\* handlers.ts:23   !data.heading || !data.description || !data.content
MissingRequired_NoContent(data) ==
    ~Truthy(data.heading) \/ ~Truthy(data.description)

MissingRequired(data) ==
    ~Truthy(data.heading) \/ ~Truthy(data.description) \/ ~Truthy(data.content)

\* handlers.ts:33   data.heading.length < 3
\* (.length of a number is undefined, and undefined < 3 is false)
HeadingTooShort_OffByOne(data) ==
    IsString(data.heading) /\ Len(data.heading.v) < MinHeadingLength - 1

HeadingTooShort(data) ==
    IsString(data.heading) /\ Len(data.heading.v) < MinHeadingLength

MissingMessage == "Missing required fields: heading, description, or content"
TooShortMessage == "Heading must be at least 3 characters long"
InternalMessage == "Internal server error"
CreatedMessage == "Content created successfully"

\* handlers.ts:23-41: the two checks in their order; "" when both pass
Validate_LengthFirst(data) ==
    IF HeadingTooShort(data) THEN TooShortMessage
    ELSE IF MissingRequired(data) THEN MissingMessage
    ELSE ""

Validate(data) ==
    IF MissingRequired(data) THEN MissingMessage
    ELSE IF HeadingTooShort(data) THEN TooShortMessage
    ELSE ""

\* handlers.ts:44-46   data.content.split(/\s+/).filter(...).length
WordCount_NoFilter(content) == Len(Split(content))

WordCount(content) == Len(NonEmptyWords(Split(content)))

\* handlers.ts:47   Math.max(1, Math.ceil(wordCount / 200))
ReadTime_Floor(wordCount) == Max(1, wordCount \div WordsPerMinute)

ReadTime(wordCount) == Max(1, CeilDiv(wordCount, WordsPerMinute))

\* handlers.ts:50-56   seo?.trim() ? seo : source.substring(0, n)
\* seo?.trim() is undefined for an absent or null seo, and throws for a
\* number (trim is not a function); source.substring throws likewise.
SeoDefault_NoTrim(seo, source, n) ==
    IF seo.t = "number" THEN Thrown
    ELSE IF IsString(seo) /\ seo.v # <<>> THEN seo
    ELSE IF IsString(source) THEN Str(Substring(source.v, n))
    ELSE Thrown

SeoDefault(seo, source, n) ==
    IF seo.t = "number" THEN Thrown
    ELSE IF IsString(seo) /\ Trim(seo.v) # <<>> THEN seo
    ELSE IF IsString(source) THEN Str(Substring(source.v, n))
    ELSE Thrown

\* handlers.ts:63   Math.random().toString(36).substring(7)
\* A draw of Math.random() is given by the base-36 digits of its fraction;
\* toString(36) writes "0." before them and substring(7) drops "0." and the
\* first five digits.
RandomToString36(draw) == <<"0", ".">> \o draw
SubstringFrom(s, n) == SubSeq(s, n + 1, Len(s))

\* handlers.ts:63   `cms-${Date.now()}-${...}`
MakeId(t, draw) ==
    Str(<<"cms-", ToString(t), "-">> \o SubstringFrom(RandomToString36(draw), 7))

\* Date.prototype.toISOString: "YYYY-MM-DDTHH:MM:SS.mmmZ".  The first piece
\* stands for the calendar part down to the second, written as the whole
\* seconds since the epoch; then the three digits of the milliseconds.
ToISOString(ms) ==
    LET m == ms % 1000
    IN  <<ToString(ms \div 1000), ".", ToString(m \div 100),
          ToString((m \div 10) % 10), ToString(m % 10), "Z">>

Digit(ch) == CHOOSE d \in 0..9 : ToString(d) = ch

\* new Date(text).getTime() of a text written by toISOString
ParseISO(text) ==
    LET secs == CHOOSE s \in 0..((StartTime + MaxTicks) \div 1000 + 1) :
                    ToString(s) = text[1]
    IN  secs * 1000 + Digit(text[3]) * 100 + Digit(text[4]) * 10 + Digit(text[5])

----------------------------------------------------------------------------
(* The responses of the handler (HttpResponse.json).  keys are the keys of  *)
(* the JSON body; a field whose key the body does not carry holds its zero  *)
(* value.                                                                   *)

NoResponse ==
    [status |-> 0, keys |-> {}, success |-> FALSE, error |-> "",
     message |-> "", data |-> EmptyObject, requestId |-> <<>>]

\* handlers.ts:24-30, 34-40, 96-102
Failure(status, text) ==
    [status |-> status, keys |-> {"success", "error"}, success |-> FALSE,
     error |-> text, message |-> "", data |-> EmptyObject, requestId |-> <<>>]

\* handlers.ts:79-92
Created(record, t) ==
    [status |-> 201, keys |-> {"success", "data", "message"}, success |-> TRUE,
     error |-> "", message |-> CreatedMessage, data |-> record,
     requestId |-> <<"req-", ToString(t)>>]

\* handlers.ts:59-68: the object literal.  Later entries of the literal
\* override the spread ...data; updated_at is not an entry of the literal.
CreateRecord_SpreadLast(data, seoTitle, seoDescription, id, createdAt, readTime) ==
    [k \in Keys |->
        IF Has(data, k) THEN data[k]
        ELSE CASE k = "seo_title" -> seoTitle
               [] k = "seo_description" -> seoDescription
               [] k = "id" -> id
               [] k = "created_at" -> createdAt
               [] k = "read_time_minutes" -> readTime
               [] OTHER -> data[k]]

CreateRecord_FormFieldsOnly(data, seoTitle, seoDescription, id, createdAt, readTime) ==
    [k \in Keys |->
        CASE k = "seo_title" -> seoTitle
          [] k = "seo_description" -> seoDescription
          [] k = "id" -> id
          [] k = "created_at" -> createdAt
          [] k = "read_time_minutes" -> readTime
          [] k \in {"heading", "description", "content"} -> data[k]
          [] OTHER -> Undefined]

\* The literal with a read time that the candidate can supply
CreateRecord_KeepsReadTime(data, seoTitle, seoDescription, id, createdAt, readTime) ==
    [k \in Keys |->
        CASE k = "seo_title" -> seoTitle
          [] k = "seo_description" -> seoDescription
          [] k = "id" -> id
          [] k = "created_at" -> createdAt
          [] k = "read_time_minutes" ->
                IF Has(data, k) THEN data[k] ELSE readTime
          [] OTHER -> data[k]]

CreateRecord(data, seoTitle, seoDescription, id, createdAt, readTime) ==
    [k \in Keys |->
        CASE k = "seo_title" -> seoTitle
          [] k = "seo_description" -> seoDescription
          [] k = "id" -> id
          [] k = "created_at" -> createdAt
          [] k = "read_time_minutes" -> readTime
          [] OTHER -> data[k]]

\* A request body: text that request.json() parses to data, or that it
\* rejects (ok = FALSE).
Body(data) == [ok |-> TRUE, data |-> data]
Unparseable == [ok |-> FALSE, data |-> EmptyObject]

\* handlers.ts:19-103: the try block after the delay.  t1 is the clock read
\* by Date.now() at line 63, t2 the clock read by new Date() at line 64 and
\* by Date.now() at line 89, draw the value of Math.random().
SubmitContent(body, t1, t2, draw) ==
    IF ~body.ok THEN Failure(500, InternalMessage)
    ELSE
    LET data == body.data
        invalid == Validate(data)
    IN  IF invalid # "" THEN Failure(400, invalid)
        ELSE IF ~IsString(data.content) THEN Failure(500, InternalMessage)
        ELSE
        LET readTime == ReadTime(WordCount(data.content.v))
            seoTitle == SeoDefault(data.seo_title, data.heading, SeoTitleLength)
            seoDescription ==
                SeoDefault(data.seo_description, data.description,
                           SeoDescriptionLength)
        IN  IF seoTitle = Thrown \/ seoDescription = Thrown
            THEN Failure(500, InternalMessage)
            ELSE Created(CreateRecord(data, seoTitle, seoDescription,
                                      MakeId(t1, draw), Str(ToISOString(t2)),
                                      Num(readTime)),
                         t2)

----------------------------------------------------------------------------
(* Workloads: the request bodies callers send *)

Rep(ch, n) == [i \in 1..n |-> ch]

\* n words of one letter, separated by single spaces
WordsText(n) == [i \in 1..(2 * n - 1) |-> IF i % 2 = 1 THEN "w" ELSE " "]

HeadingSamples ==
    {Undefined, Str(<<>>), Str(<<"A", "b">>), Str(<<"A", "b", "c">>),
     Str(<<" ", " ", " ">>), Str(Rep("H", LongHeadingLen)), Num(5)}

DescriptionSamples ==
    {Null, Str(<<>>), Str(<<"d">>), Str(Rep("D", LongDescriptionLen))}

ContentSamples ==
    {Str(<<>>), Str(<<" ">>), Str(<<"w">>),
     Str(<<" ", "w", "\t", "\n", "w", " ">>),
     Str(WordsText(WordsPerMinute)), Str(WordsText(WordsPerMinute + 1)),
     Num(5)}

SeoTitleSamples ==
    {Undefined, Str(<<" ", "\t">>), Str(<<" ", "t", " ">>), Num(1)}

SeoDescriptionSamples == {Null, Str(<<>>), Str(<<"s">>)}

\* Attributes beside the five the handler reads
ExtraSamples ==
    {EmptyObject,
     [EmptyObject EXCEPT !.author = Str(<<"a", "u">>)],
     [EmptyObject EXCEPT !.author = Str(<<"a", "u">>),
                         !.updated_at = Str(ToISOString(0)),
                         !.id = Str(<<"x">>),
                         !.created_at = Str(ToISOString(0)),
                         !.read_time_minutes = Num(99)]}

Candidate(h, d, c, st, sd, extra) ==
    [extra EXCEPT !.heading = h, !.description = d, !.content = c,
                  !.seo_title = st, !.seo_description = sd]

AllBodies ==
    {Unparseable} \cup
    {Body(Candidate(h, d, c, st, sd, x)) :
        h \in HeadingSamples, d \in DescriptionSamples, c \in ContentSamples,
        st \in SeoTitleSamples, sd \in SeoDescriptionSamples,
        x \in ExtraSamples}

ValidCandidate ==
    Candidate(Str(<<"A", "b", "c">>), Str(<<"d">>), Str(<<"w", " ", "w">>),
              Str(<<>>), Str(<<>>), EmptyObject)

ConcurrentBodies ==
    {Unparseable,
     Body(ValidCandidate),
     Body([ValidCandidate EXCEPT !.created_at = Str(ToISOString(0)),
                                 !.updated_at = Str(ToISOString(0))]),
     Body([ValidCandidate EXCEPT !.heading = Str(<<"A", "b">>),
                                 !.content = Str(<<>>)])}

Bodies(m) == IF m = "inputs" THEN AllBodies ELSE ConcurrentBodies
CallLimit(m) == IF m = "inputs" THEN 1 ELSE NumCalls

\* Values of Math.random(), by the base-36 digits of the fraction: 0.5, and
\* two draws that differ in their leading digits only
RandomDraws ==
    {<<"i">>, <<"a", "b", "c", "d", "e", "f", "g">>,
     <<"z", "b", "c", "d", "e", "f", "g">>}

----------------------------------------------------------------------------
(* generateSlug (utils/generateSlug.ts).  A text of the form is the         *)
(* sequence of its characters.                                              *)

UpperCase ==
    <<"A", "B", "C", "D", "E", "F", "G", "H", "I", "J", "K", "L", "M",
      "N", "O", "P", "Q", "R", "S", "T", "U", "V", "W", "X", "Y", "Z">>
LowerCase ==
    <<"a", "b", "c", "d", "e", "f", "g", "h", "i", "j", "k", "l", "m",
      "n", "o", "p", "q", "r", "s", "t", "u", "v", "w", "x", "y", "z">>
DigitChars == {"0", "1", "2", "3", "4", "5", "6", "7", "8", "9"}

Chars(s) == {s[i] : i \in 1..Len(s)}

\* String.prototype.toLowerCase
ToLowerCase(s) ==
    [i \in 1..Len(s) |->
        IF s[i] \in Chars(UpperCase)
        THEN LowerCase[CHOOSE n \in 1..Len(UpperCase) : UpperCase[n] = s[i]]
        ELSE s[i]]

\* The regexp class \w: [A-Za-z0-9_]
WordChar(ch) ==
    ch \in Chars(UpperCase) \cup Chars(LowerCase) \cup DigitChars \cup {"_"}

\* replace(/[set]+/g, by): every maximal run of characters of set becomes by
ReplaceRuns(s, set, by) ==
    LET firsts == {i \in 1..Len(s) :
                      ~(s[i] \in set /\ i > 1 /\ s[i - 1] \in set)}
        Place(n) == CHOOSE i \in firsts :
                        Cardinality({j \in firsts : j <= i}) = n
    IN  [n \in 1..Cardinality(firsts) |->
            IF s[Place(n)] \in set THEN by ELSE s[Place(n)]]

\* replace(/[^\w\-]+/g, ''): underscores stay, \w matching them
RemoveNonWord(s) == SelectSeq(s, LAMBDA ch : WordChar(ch) \/ ch = "-")

\* replace(/^-+/, '') and replace(/-+$/, '')
StripLeading(s, ch) ==
    LET keep == {i \in 1..Len(s) : s[i] # ch}
    IN  IF keep = {} THEN <<>>
        ELSE SubSeq(s, CHOOSE i \in keep : \A j \in keep : i <= j, Len(s))

StripTrailing(s, ch) ==
    LET keep == {i \in 1..Len(s) : s[i] # ch}
    IN  IF keep = {} THEN <<>>
        ELSE SubSeq(s, 1, CHOOSE i \in keep : \A j \in keep : j <= i)

\* generateSlug.ts, generateSlug(text), text a string, null or undefined;
\* the result is a string, given here by its characters.
generateSlug(text) ==
    IF ~Truthy(text) THEN <<>>
    ELSE LET lower == ToLowerCase(text.v)
             trimmed == Trim(lower)
             hyphened == ReplaceRuns(trimmed, Whitespace, "-")
             words == RemoveNonWord(hyphened)
             single == ReplaceRuns(words, {"-"}, "-")
         IN  StripTrailing(StripLeading(single, "-"), "-")

----------------------------------------------------------------------------
(* The form schema (schemas/cms.schema.ts, cmsFormSchema) *)

HeadingMaxLength == 100
DescriptionMaxLength == 500
ContentMaxLength == 5000
SeoTitleMaxLength == 60
SeoDescriptionMaxLength == 160

FieldNames ==
    {"heading", "description", "slug", "content", "keywords", "author",
     "status", "category", "featured_image", "is_featured", "tags",
     "seo_title", "seo_description"}

\* The regexp ^[a-z0-9]+(?:-[a-z0-9]+)*$
SlugPattern(s) ==
    /\ Len(s) >= 1
    /\ \A i \in 1..Len(s) : s[i] \in Chars(LowerCase) \cup DigitChars \cup {"-"}
    /\ s[1] # "-"
    /\ s[Len(s)] # "-"
    /\ \A i \in 1..(Len(s) - 1) : ~(s[i] = "-" /\ s[i + 1] = "-")

\* z.string().url(): an absolute URL, a scheme of letters, a colon and a rest
IsUrl(s) ==
    \E i \in 2..(Len(s) - 1) :
        /\ s[i] = ":"
        /\ \A j \in 1..(i - 1) : s[j] \in Chars(LowerCase) \cup Chars(UpperCase)

\* The rule of one field of the schema
FieldValid(k, v) ==
    CASE k = "heading" -> Len(v.heading) >= 1 /\ Len(v.heading) <= HeadingMaxLength
      [] k = "description" ->
            Len(v.description) >= 1 /\ Len(v.description) <= DescriptionMaxLength
      [] k = "slug" -> Len(v.slug) >= 1 /\ SlugPattern(v.slug)
      [] k = "content" -> Len(v.content) >= 1 /\ Len(v.content) <= ContentMaxLength
      [] k = "keywords" -> Len(v.keywords) >= 1
      [] k = "author" -> Len(v.author) >= 1
      [] k = "status" -> v.status \in {"draft", "published", "archived"}
      [] k = "category" -> v.category \in {"news", "blog", "press"}
      [] k = "featured_image" -> v.featured_image = <<>> \/ IsUrl(v.featured_image)
      [] k = "is_featured" -> v.is_featured \in BOOLEAN
      [] k = "tags" -> Len(v.tags) >= 1
      [] k = "seo_title" -> Len(v.seo_title) <= SeoTitleMaxLength
      [] k = "seo_description" -> Len(v.seo_description) <= SeoDescriptionMaxLength

\* The fields zodResolver reports an error for
SchemaErrors_TagsOptional(v) == {k \in FieldNames \ {"tags"} : ~FieldValid(k, v)}

SchemaErrors(v) == {k \in FieldNames : ~FieldValid(k, v)}

----------------------------------------------------------------------------
(* The client (services/api.service.ts, submitCMSContent) *)

\* A thrown value: the class of the error and its message
NoError == [name |-> "", message |-> ""]
JsError(message) == [name |-> "Error", message |-> message]

\* fetch: it rejects with a TypeError when the request does not reach the
\* handler (the text of the message is the platform's), and resolves with
\* the response of the handler otherwise.
NetworkMessages == {"Failed to fetch", "fetch failed"}
FetchRejected(message) ==
    [kind |-> "rejected", response |-> NoResponse,
     error |-> [name |-> "TypeError", message |-> message]]
FetchResolved(r) == [kind |-> "resolved", response |-> r, error |-> NoError]

\* The promise returned by submitCMSContent, settled
Resolves(data) == [kind |-> "resolved", data |-> data, error |-> NoError]
Rejects(error) == [kind |-> "rejected", data |-> EmptyObject, error |-> error]
NotSettled == [kind |-> "none", data |-> EmptyObject, error |-> NoError]

\* response.ok
Ok(r) == r.status \in 200..299

HttpMessage(status) == "HTTP " \o ToString(status) \o ": Failed to submit content"

\* The catch block of lines 66-72, as one that reports every failure alike
Catch_Generic(error) == JsError("Unknown error occurred while submitting content")

\* lines 66-72: an Error is thrown again as it is
Catch(error) ==
    IF error.name \in {"Error", "TypeError"} THEN error
    ELSE JsError("Unknown error occurred while submitting content")

\* lines 40-72, from the outcome of fetch on
SubmitCMSContent(fetched) ==
    IF fetched.kind = "rejected" THEN Rejects(Catch(fetched.error))
    ELSE LET r == fetched.response
         IN  IF ~Ok(r) \/ ~r.success
             THEN Rejects(Catch(JsError(IF r.error # "" THEN r.error
                                        ELSE HttpMessage(r.status))))
             ELSE IF "data" \notin r.keys
             THEN Rejects(Catch(JsError("No data returned from server")))
             ELSE Resolves(r.data)

----------------------------------------------------------------------------
(* The form (components/CMSForm.tsx, FormFields/BasicInfoFields.tsx) *)

MaxSubmits == 2      \* invocations of onSubmit in a run of the form
MaxSlugInput == 4    \* length of the texts generateSlug is applied to
MaxTags == 4         \* tags the list of the form may hold

HideDelay == 3       \* seconds until the success message is hidden

Text(str) ==
    CASE str = "" -> <<>>
      [] str = "Hi" -> <<"H", "i">>
      [] str = "My Post" -> <<"M", "y", " ", "P", "o", "s", "t">>
      [] str = "my-post" -> <<"m", "y", "-", "p", "o", "s", "t">>
      [] str = "my-slug" -> <<"m", "y", "-", "s", "l", "u", "g">>
      [] str = "My Slug" -> <<"M", "y", " ", "S", "l", "u", "g">>

\* CMSForm.tsx:22-36
defaultFormValues ==
    [heading |-> <<>>, description |-> <<>>, slug |-> <<>>, content |-> <<>>,
     keywords |-> <<>>, author |-> <<>>, status |-> "draft",
     category |-> "blog", featured_image |-> <<>>, is_featured |-> FALSE,
     tags |-> <<>>, seo_title |-> <<>>, seo_description |-> <<>>]

\* Initial data that fills every required field
validInitialData ==
    [defaultFormValues EXCEPT
        !.heading = Text("My Post"), !.description = <<"d">>,
        !.slug = Text("my-post"), !.content = <<"w">>,
        !.keywords = << <<"k">> >>, !.author = <<"a">>,
        !.tags = << <<"t">> >>]

InitialDataSamples == {defaultFormValues, validInitialData}

\* What the user types into a field
HeadingTexts == {Text(""), Text("Hi"), Text("My Post")}
SlugTexts == {Text(""), Text("my-slug"), Text("My Slug")}
OtherFields == {"keywords", "tags"}
FieldTexts(k) == {defaultFormValues[k], validInitialData[k]}

\* BasicInfoFields.tsx:89-96: the effect that follows a render
useEffect_ManualIgnored(v, isSlugManuallyEdited) ==
    IF Truthy(Str(v.heading))
    THEN [v EXCEPT !.slug = generateSlug(Str(v.heading))]
    ELSE v

useEffect_Off(v, isSlugManuallyEdited) == v

useEffect(v, isSlugManuallyEdited) ==
    IF ~isSlugManuallyEdited /\ Truthy(Str(v.heading))
    THEN LET autoSlug == generateSlug(Str(v.heading))
         IN  IF autoSlug # v.slug THEN [v EXCEPT !.slug = autoSlug] ELSE v
    ELSE v

\* JSON.stringify(data) of api.service.ts:49, read by request.json(): the
\* attributes the handler reads, texts as JSON strings
FormBody(v) ==
    Body([EmptyObject EXCEPT
            !.heading = Str(v.heading), !.description = Str(v.description),
            !.content = Str(v.content), !.seo_title = Str(v.seo_title),
            !.seo_description = Str(v.seo_description),
            !.author = Str(v.author)])

\* What fetch can come to for a candidate at time t: no connection, or the
\* response of the handler
FetchOutcomes(v, t) ==
    {FetchRejected(m) : m \in NetworkMessages} \cup
    {FetchResolved(SubmitContent(FormBody(v), t, t, draw)) : draw \in RandomDraws}

\* The initialData prop (Partial<CMSFormData>): the fields it gives and
\* their values
Given(keys, data) == [given |-> keys, data |-> data]

\* CMSForm.tsx:56: { ...defaultFormValues, ...initialData }
Merge(prop) ==
    [k \in FieldNames |->
        IF k \in prop.given THEN prop.data[k] ELSE defaultFormValues[k]]

\* The initialData the form is mounted with: none, every field, every field
\* with a slug of the author's own, the slug alone, the heading alone
MountSamples ==
    {Given({}, defaultFormValues),
     Given(FieldNames, validInitialData),
     Given(FieldNames, [validInitialData EXCEPT !.slug = Text("my-slug")]),
     Given({"slug"}, [defaultFormValues EXCEPT !.slug = Text("my-slug")]),
     Given({"heading"}, [defaultFormValues EXCEPT !.heading = Text("My Post")])}

\* CMSForm.tsx:49-64 and BasicInfoFields.tsx:24: the component as mounted
\* with initialData, before its first effect.  A null of the code is the
\* empty tuple, a value v the tuple <<v>>.
Mounted(initialData) ==
    [initialData |-> Given(FieldNames, initialData),
     effectRun |-> FALSE,
     tagInput |-> <<>>,
     values |-> initialData,
     isSlugManuallyEdited |-> FALSE,
     isSubmitting |-> FALSE,
     submitError |-> <<>>,
     submitSuccess |-> FALSE,
     submittedContent |-> <<>>,
     errors |-> {},
     pending |-> <<>>,
     transport |-> FALSE,
     settled |-> NotSettled,
     timers |-> <<>>,
     invocations |-> 0]

NoSlugCall == [pc |-> "none", text |-> Undefined, result |-> <<>>]

RECURSIVE TextsUpTo(_, _)
TextsUpTo(alphabet, n) ==
    IF n = 0 THEN {<<>>}
    ELSE LET shorter == TextsUpTo(alphabet, n - 1)
         IN  shorter \cup {Append(s, ch) : s \in shorter, ch \in alphabet}

SlugAlphabet == {"A", "b", "1", "_", " ", "-", "!"}
SlugInputs ==
    {Null, Undefined} \cup {Str(s) : s \in TextsUpTo(SlugAlphabet, MaxSlugInput)}

----------------------------------------------------------------------------
(* The state machine.  pc of a call: "delay" while it awaits                *)
(* delay(NETWORK_DELAY) (line 17), "json" while it awaits request.json()    *)
(* (line 20), "done" when it has returned its response.                     *)

TypeOK ==
    /\ mode \in {"inputs", "concurrent", "form", "mount", "tags", "repeat",
               "slug"}
    /\ now \in StartTime..(StartTime + MaxTicks)
    /\ Len(calls) <= CallLimit(mode)
    /\ \A c \in 1..Len(calls) :
        /\ calls[c].pc \in {"delay", "json", "done"}
        /\ calls[c].body \in Bodies(mode)
        /\ calls[c].sent \in 0..1

InitCalls == calls = <<>> /\ now = StartTime

\* No form is mounted beside the handler: the component in its first state
InitUI == form = Mounted(defaultFormValues) /\ slugCall = NoSlugCall

Init == mode = "concurrent" /\ InitCalls /\ InitUI

InitInputs == mode = "inputs" /\ InitCalls /\ InitUI

\* A caller posts a body and the handler is invoked (line 16)
Invoke ==
    /\ Len(calls) < CallLimit(mode)
    /\ \E b \in Bodies(mode) :
        calls' = Append(calls, [pc |-> "delay", body |-> b,
                                resp |-> NoResponse, sent |-> 0])
    /\ UNCHANGED <<mode, now, form, slugCall>>

\* The timer of delay(NETWORK_DELAY) fires (line 17).  All calls wait the
\* same time, so the timers fire in the order of the invocations.
DelayDone(c) ==
    /\ c \in 1..Len(calls)
    /\ calls[c].pc = "delay"
    /\ \A d \in 1..(c - 1) : calls[d].pc # "delay"
    /\ calls' = [calls EXCEPT ![c].pc = "json"]
    /\ UNCHANGED <<mode, now, form, slugCall>>

\* Handle with a retry: a call that was refused goes back to its delay
Handle_Retry(c) ==
    /\ c \in 1..Len(calls)
    /\ calls[c].pc = "json"
    /\ \E draw \in RandomDraws :
       \E t2 \in now..Min(now + 1, StartTime + MaxTicks) :
        LET r == SubmitContent(calls[c].body, now, t2, draw)
        IN  /\ calls' = [calls EXCEPT
                            ![c].pc = IF r.status = 201 THEN "done" ELSE "delay",
                            ![c].resp = r,
                            ![c].sent = Min(@ + 1, 1)]
            /\ now' = t2
    /\ UNCHANGED <<mode, form, slugCall>>

\* Handle with a memory of failures: once a call has failed, every later
\* call fails
Handle_Sticky(c) ==
    /\ c \in 1..Len(calls)
    /\ calls[c].pc = "json"
    /\ \E draw \in RandomDraws :
       \E t2 \in now..Min(now + 1, StartTime + MaxTicks) :
        /\ calls' = [calls EXCEPT
                        ![c].pc = "done",
                        ![c].resp =
                            IF \E d \in 1..Len(calls) :
                                   calls[d].pc = "done"
                                   /\ calls[d].resp.status # 201
                            THEN Failure(500, InternalMessage)
                            ELSE SubmitContent(calls[c].body, now, t2, draw),
                        ![c].sent = @ + 1]
        /\ now' = t2
    /\ UNCHANGED <<mode, form, slugCall>>

\* request.json() settles and the rest of the handler runs to its return
\* (lines 20-103), without interruption.  The clock may advance between the
\* two reads of lines 63 and 64.
Handle(c) ==
    /\ c \in 1..Len(calls)
    /\ calls[c].pc = "json"
    /\ \E draw \in RandomDraws :
       \E t2 \in now..Min(now + 1, StartTime + MaxTicks) :
        /\ calls' = [calls EXCEPT
                        ![c].pc = "done",
                        ![c].resp = SubmitContent(calls[c].body, now, t2, draw),
                        ![c].sent = @ + 1]
        /\ now' = t2
    /\ UNCHANGED <<mode, form, slugCall>>

\* A millisecond passes
Tick ==
    /\ now < StartTime + MaxTicks
    /\ now' = now + 1
    /\ UNCHANGED <<mode, calls, form, slugCall>>

Next ==
    \/ Invoke
    \/ \E c \in 1..Len(calls) : DelayDone(c)
    \/ \E c \in 1..Len(calls) : Handle(c)
    \/ Tick

\* Concurrent calls of a caller, bodies from ConcurrentBodies
Spec == Init /\ [][Next]_vars

\* One call, its body from the product of the samples
SpecInputs == InitInputs /\ [][Next]_vars

\* Timers fire and promises settle: a call that can take a step takes it
Fairness ==
    /\ WF_vars(\E c \in 1..Len(calls) : DelayDone(c))
    /\ WF_vars(\E c \in 1..Len(calls) : Handle(c))

FairSpec == Spec /\ Fairness

----------------------------------------------------------------------------
(* The form as a state machine.  A user event runs with the render and the  *)
(* effects that follow it.                                                  *)

InitForm ==
    /\ mode = "form"
    /\ InitCalls
    /\ slugCall = NoSlugCall
    /\ \E initialData \in InitialDataSamples :
        form = [Mounted(initialData) EXCEPT
                   !.effectRun = TRUE,
                   !.values = useEffect(initialData, FALSE)]

\* The user edits the heading (BasicInfoFields.tsx:36-57, 89-96)
ChangeHeading ==
    /\ \E text \in HeadingTexts :
        /\ text # form.values.heading
        /\ form' = [form EXCEPT
                       !.values = useEffect([@ EXCEPT !.heading = text],
                                            form.isSlugManuallyEdited)]
    /\ UNCHANGED <<mode, calls, now, slugCall>>

\* The user types in the slug field (BasicInfoFields.tsx:110-114)
ChangeSlug ==
    /\ \E text \in SlugTexts :
        /\ text # form.values.slug
        /\ form' = [form EXCEPT
                       !.values = useEffect([@ EXCEPT !.slug = text], TRUE),
                       !.isSlugManuallyEdited = TRUE]
    /\ UNCHANGED <<mode, calls, now, slugCall>>

\* The refresh button that leaves the slug marked as manually edited
RefreshSlug_StaysManual ==
    /\ form' = [form EXCEPT
                   !.values = [@ EXCEPT
                                  !.slug = generateSlug(Str(form.values.heading))]]
    /\ UNCHANGED <<mode, calls, now, slugCall>>

\* The user clicks the refresh button of the slug field
\* (BasicInfoFields.tsx:120-124)
RefreshSlug ==
    /\ form' = [form EXCEPT
                   !.values =
                       useEffect([@ EXCEPT
                                     !.slug = generateSlug(Str(form.values.heading))],
                                 FALSE),
                   !.isSlugManuallyEdited = FALSE]
    /\ UNCHANGED <<mode, calls, now, slugCall>>

\* The user edits another field
ChangeField ==
    /\ \E k \in OtherFields : \E v \in FieldTexts(k) :
        /\ v # form.values[k]
        /\ form' = [form EXCEPT
                       !.values = useEffect([@ EXCEPT ![k] = v],
                                            form.isSlugManuallyEdited)]
    /\ UNCHANGED <<mode, calls, now, slugCall>>

\* onSubmitHandler that leaves the last error in place when it starts
Started_KeepsError(f, data) ==
    [f EXCEPT !.errors = {},
              !.isSubmitting = TRUE,
              !.submitSuccess = FALSE,
              !.submittedContent = <<>>,
              !.pending = <<data>>,
              !.transport = FALSE,
              !.settled = NotSettled,
              !.invocations = @ + 1]

\* CMSForm.tsx:70-76, the part of onSubmitHandler before its await
Started(f, data) ==
    [f EXCEPT !.errors = {},
              !.isSubmitting = TRUE,
              !.submitError = <<>>,
              !.submitSuccess = FALSE,
              !.submittedContent = <<>>,
              !.pending = <<data>>,
              !.transport = FALSE,
              !.settled = NotSettled,
              !.invocations = @ + 1]

\* A submit button that is never disabled
Submit_NeverDisabled ==
    /\ form.invocations < MaxSubmits
    /\ LET errors == SchemaErrors(form.values)
       IN  form' = IF errors # {} THEN [form EXCEPT !.errors = errors]
                   ELSE Started(form, form.values)
    /\ UNCHANGED <<mode, calls, now, slugCall>>

\* The submit gesture (CMSForm.tsx:166, 208-218): the button is disabled
\* while isSubmitting; handleSubmit validates the values with the schema and
\* calls onSubmitHandler when they are valid, and sets the errors otherwise.
Submit ==
    /\ ~form.isSubmitting
    /\ form.invocations < MaxSubmits
    /\ LET errors == SchemaErrors(form.values)
       IN  form' = IF errors # {} THEN [form EXCEPT !.errors = errors]
                   ELSE Started(form, form.values)
    /\ UNCHANGED <<mode, calls, now, slugCall>>

\* CMSForm.tsx:94-96
ErrorText(error) ==
    IF error.name \in {"Error", "TypeError"} THEN error.message
    ELSE "An unknown error occurred"

\* onSubmitHandler that resets the form after a failure as well
Settled_ResetAlways(f, fetched) ==
    LET outcome == SubmitCMSContent(fetched)
        g == [f EXCEPT !.pending = <<>>,
                       !.transport = (fetched.kind = "rejected"),
                       !.settled = outcome, !.isSubmitting = FALSE,
                       !.values = useEffect(defaultFormValues,
                                            f.isSlugManuallyEdited)]
    IN  IF outcome.kind = "resolved"
        THEN [g EXCEPT !.submittedContent = <<outcome.data>>,
                       !.submitSuccess = TRUE,
                       !.errors = {},
                       !.timers = Append(@, HideDelay)]
        ELSE [g EXCEPT !.submitError = <<ErrorText(outcome.error)>>]

\* onSubmitHandler that sets no timer after a success
Settled_NoTimer(f, fetched) ==
    LET outcome == SubmitCMSContent(fetched)
        g == [f EXCEPT !.pending = <<>>,
                       !.transport = (fetched.kind = "rejected"),
                       !.settled = outcome, !.isSubmitting = FALSE]
    IN  IF outcome.kind = "resolved"
        THEN [g EXCEPT !.submittedContent = <<outcome.data>>,
                       !.submitSuccess = TRUE,
                       !.values = useEffect(defaultFormValues,
                                            f.isSlugManuallyEdited),
                       !.errors = {}]
        ELSE [g EXCEPT !.submitError = <<ErrorText(outcome.error)>>]

\* CMSForm.tsx:78-99, onSubmitHandler from its await on, for the settled
\* promise of onSubmit
Settled(f, fetched) ==
    LET outcome == SubmitCMSContent(fetched)
        g == [f EXCEPT !.pending = <<>>,
                       !.transport = (fetched.kind = "rejected"),
                       !.settled = outcome, !.isSubmitting = FALSE]
    IN  IF outcome.kind = "resolved"
        THEN [g EXCEPT !.submittedContent = <<outcome.data>>,
                       !.submitSuccess = TRUE,
                       !.values = useEffect(defaultFormValues,
                                            f.isSlugManuallyEdited),
                       !.errors = {},
                       !.timers = Append(@, HideDelay)]
        ELSE [g EXCEPT !.submitError = <<ErrorText(outcome.error)>>]

\* The promise of onSubmit settles (App.tsx:21-38, api.service.ts:40-72)
Settle ==
    /\ form.pending # <<>>
    /\ \E fetched \in FetchOutcomes(form.pending[1], now) :
        form' = Settled(form, fetched)
    /\ UNCHANGED <<mode, calls, now, slugCall>>

\* A timer of CMSForm.tsx:93 fires
HideSuccess ==
    /\ form.timers # <<>>
    /\ Head(form.timers) = 0
    /\ form' = [form EXCEPT !.submitSuccess = FALSE, !.timers = Tail(@)]
    /\ UNCHANGED <<mode, calls, now, slugCall>>

\* A second passes; a timer that is due fires first
FormTick ==
    /\ form.timers # <<>>
    /\ \A i \in 1..Len(form.timers) : form.timers[i] > 0
    /\ form' = [form EXCEPT
                   !.timers = [i \in 1..Len(@) |-> @[i] - 1]]
    /\ UNCHANGED <<mode, calls, now, slugCall>>

NextForm ==
    \/ ChangeHeading
    \/ ChangeSlug
    \/ RefreshSlug
    \/ ChangeField
    \/ Submit
    \/ Settle
    \/ HideSuccess
    \/ FormTick

\* The form, mounted with or without initial data, and its user
SpecForm == InitForm /\ [][NextForm]_vars

\* The event loop runs a timer that is due, and time passes
FairnessForm ==
    /\ WF_vars(HideSuccess)
    /\ WF_vars(FormTick)

FairSpecForm == SpecForm /\ FairnessForm

----------------------------------------------------------------------------
(* The mounting of the form with initialData *)

\* The first render: the fields hold the merged default values
InitMount ==
    /\ mode = "mount"
    /\ InitCalls
    /\ slugCall = NoSlugCall
    /\ \E prop \in MountSamples :
        form = [Mounted(Merge(prop)) EXCEPT !.initialData = prop]

\* The effect of the slug field runs after the first render
\* (BasicInfoFields.tsx:89-96)
FirstEffect ==
    /\ ~form.effectRun
    /\ form' = [form EXCEPT
                   !.effectRun = TRUE,
                   !.values = useEffect(@, form.isSlugManuallyEdited)]
    /\ UNCHANGED <<mode, calls, now, slugCall>>

\* The user's events come after the effects of the first render
NextMount ==
    \/ FirstEffect
    \/ (form.effectRun /\ ChangeHeading)
    \/ (form.effectRun /\ ChangeSlug)
    \/ (form.effectRun /\ RefreshSlug)
    \/ (form.effectRun /\ ChangeField)

SpecMount == InitMount /\ [][NextMount]_vars

----------------------------------------------------------------------------
(* The tags field (FormFields/SEOFields.tsx) *)

\* What the user types into the tag input, and the lists the form starts with
TagInputs == {<<>>, <<" ">>, <<"t">>, <<" ", "t", " ">>, <<"u">>, <<"T">>}
TagLists == {<<>>, << <<"t">> >>, << <<"u">>, <<"t">> >>}

InitTags ==
    /\ mode = "tags"
    /\ InitCalls
    /\ slugCall = NoSlugCall
    /\ \E tags \in TagLists :
        form = [Mounted([validInitialData EXCEPT !.tags = tags]) EXCEPT
                   !.effectRun = TRUE]

\* SEOFields.tsx:83
ChangeTagInput ==
    /\ \E text \in TagInputs :
        /\ text # form.tagInput
        /\ form' = [form EXCEPT !.tagInput = text]
    /\ UNCHANGED <<mode, calls, now, slugCall>>

\* Array.prototype.includes
Includes(list, x) == \E i \in 1..Len(list) : list[i] = x

\* onKeyDown that appends without looking the tag up
AddTag_NoLookup ==
    /\ Trim(form.tagInput) # <<>>
    /\ Len(form.values.tags) < MaxTags
    /\ form' = [form EXCEPT
                   !.values = [@ EXCEPT !.tags = Append(@, Trim(form.tagInput))],
                   !.tagInput = <<>>]
    /\ UNCHANGED <<mode, calls, now, slugCall>>

\* Enter in the tag input with a text that is not blank (SEOFields.tsx:84-93)
AddTag ==
    /\ Trim(form.tagInput) # <<>>
    /\ Len(form.values.tags) < MaxTags
    /\ LET newTag == Trim(form.tagInput)
       IN  form' = [form EXCEPT
                       !.values = IF ~Includes(form.values.tags, newTag)
                                  THEN [@ EXCEPT !.tags = Append(@, newTag)]
                                  ELSE @,
                       !.tagInput = <<>>]
    /\ UNCHANGED <<mode, calls, now, slugCall>>

\* Enter in the tag input with a blank text: the handler does nothing, the
\* default of the key is not prevented and the form is submitted
\* (SEOFields.tsx:85, CMSForm.tsx:166)
EnterOnBlank ==
    /\ Trim(form.tagInput) = <<>>
    /\ Submit

\* Array.prototype.filter((_, i) => i !== index)
FilterOut(list, index) ==
    [i \in 1..(Len(list) - 1) |-> IF i < index THEN list[i] ELSE list[i + 1]]

\* The delete icon of the chip at a position (SEOFields.tsx:106-109)
DeleteTag ==
    /\ \E index \in 1..Len(form.values.tags) :
        form' = [form EXCEPT
                    !.values = [@ EXCEPT !.tags = FilterOut(@, index)]]
    /\ UNCHANGED <<mode, calls, now, slugCall>>

NextTags ==
    \/ ChangeTagInput
    \/ AddTag
    \/ EnterOnBlank
    \/ DeleteTag
    \/ Settle

SpecTags == InitTags /\ [][NextTags]_vars

----------------------------------------------------------------------------
(* One entry after another: the user fills the form again after a success   *)
(* has reset it.                                                            *)

\* The fields beside the heading and the slug that the schema requires
RequiredFields == {"description", "content", "keywords", "author", "tags"}

InitRepeat ==
    /\ mode = "repeat"
    /\ InitCalls
    /\ slugCall = NoSlugCall
    /\ form = [Mounted(validInitialData) EXCEPT
                   !.effectRun = TRUE,
                   !.values = useEffect(validInitialData, FALSE)]

\* The user fills a required field that is empty
EnterField ==
    /\ \E k \in RequiredFields :
        /\ form.values[k] = defaultFormValues[k]
        /\ form' = [form EXCEPT
                       !.values = useEffect([@ EXCEPT ![k] = validInitialData[k]],
                                            form.isSlugManuallyEdited)]
    /\ UNCHANGED <<mode, calls, now, slugCall>>

NextRepeat ==
    \/ ChangeHeading
    \/ EnterField
    \/ Submit
    \/ Settle
    \/ HideSuccess
    \/ FormTick

SpecRepeat == InitRepeat /\ [][NextRepeat]_vars

----------------------------------------------------------------------------
(* generateSlug applied to the texts of SlugInputs *)

InitSlug ==
    /\ mode = "slug"
    /\ InitCalls
    /\ form = Mounted(defaultFormValues)
    /\ slugCall \in {[pc |-> "called", text |-> t, result |-> <<>>] :
                        t \in SlugInputs}

GenerateSlugReturns ==
    /\ slugCall.pc = "called"
    /\ slugCall' = [slugCall EXCEPT !.pc = "returned",
                                    !.result = generateSlug(slugCall.text)]
    /\ UNCHANGED <<mode, calls, now, form>>

NextSlug == GenerateSlugReturns

SpecSlug == InitSlug /\ [][NextSlug]_vars

----------------------------------------------------------------------------
(* Vocabulary of the properties *)

Calls == 1..Len(calls)
Done(c) == calls[c].pc = "done"
Parsed(c) == calls[c].body.ok
Input(c) == calls[c].body.data
Resp(c) == calls[c].resp
Succeeded(c) == Done(c) /\ Resp(c).status = 201
Output(c) == Resp(c).data

\* Empty, absent (undefined) or null: stated on the values themselves
EmptyOrAbsent(x) == x = Undefined \/ x = Null \/ x = Str(<<>>)
AnyRequiredMissing(data) ==
    \/ EmptyOrAbsent(data.heading)
    \/ EmptyOrAbsent(data.description)
    \/ EmptyOrAbsent(data.content)
ShortHeading(data) == IsString(data.heading) /\ Len(data.heading.v) <= 2

\* A response that carries no record: no data, hence no id and no created_at
NoRecord(r) ==
    /\ "data" \notin r.keys
    /\ ~Has(r.data, "id")
    /\ ~Has(r.data, "created_at")

ValidationFailure(r, text) ==
    /\ r.status = 400
    /\ r.success = FALSE
    /\ r.keys = {"success", "error"}
    /\ r.error = text
    /\ NoRecord(r)

\* C1: a candidate whose heading, description or content is empty, absent or
\* undefined is answered with the missing-required-fields failure (status
\* 400, success false, that message) and no record.
C1_MissingRequiredFields ==
    \A c \in Calls :
        (Done(c) /\ Parsed(c) /\ AnyRequiredMissing(Input(c)))
            => ValidationFailure(Resp(c), MissingMessage)

C1_Witness ==
    \E c \in Calls :
        /\ Done(c) /\ Parsed(c)
        /\ Input(c).content = Str(<<>>)
        /\ ~EmptyOrAbsent(Input(c).heading)
        /\ ~EmptyOrAbsent(Input(c).description)
        /\ ~ShortHeading(Input(c))
        /\ ValidationFailure(Resp(c), MissingMessage)

\* C2: a candidate whose three required fields are non-empty and whose
\* heading has fewer than 3 characters is answered with the heading-too-short
\* failure (status 400, success false, that message) and no record.
C2_HeadingTooShort ==
    \A c \in Calls :
        (Done(c) /\ Parsed(c) /\ ~AnyRequiredMissing(Input(c))
                 /\ ShortHeading(Input(c)))
            => ValidationFailure(Resp(c), TooShortMessage)

C2_Witness ==
    \E c \in Calls :
        /\ Done(c) /\ Parsed(c)
        /\ Input(c).heading = Str(<<"A", "b">>)
        /\ ~AnyRequiredMissing(Input(c))
        /\ ValidationFailure(Resp(c), TooShortMessage)

\* C3: validation is fail-fast in a fixed order: a candidate that misses a
\* required field and has a short heading is reported as missing required
\* fields only; the heading-too-short failure is reported only when nothing
\* is missing; every validation failure carries exactly one of the two kinds.
C3_FailFastOrder ==
    \A c \in Calls :
        (Done(c) /\ Resp(c).status = 400) =>
            /\ Resp(c).error \in {MissingMessage, TooShortMessage}
            /\ (AnyRequiredMissing(Input(c)) /\ ShortHeading(Input(c)))
                    => Resp(c).error = MissingMessage
            /\ Resp(c).error = TooShortMessage
                    => (~AnyRequiredMissing(Input(c)) /\ ShortHeading(Input(c)))

C3_Witness ==
    \E c \in Calls :
        /\ Done(c) /\ Parsed(c)
        /\ Input(c).heading = Str(<<"A", "b">>)
        /\ Input(c).content = Str(<<>>)
        /\ ~EmptyOrAbsent(Input(c).description)
        /\ ValidationFailure(Resp(c), MissingMessage)

\* The words of a text, counted by their first characters: a character that
\* is not whitespace and follows whitespace or starts the text
WordStarts(s) ==
    {i \in 1..Len(s) :
        s[i] \notin Whitespace /\ (i = 1 \/ s[i - 1] \in Whitespace)}

\* max(1, ceil(n / 200)): the least k >= 1 with 200 * k >= n
ExpectedReadTime(n) ==
    CHOOSE k \in 1..(n + 1) :
        /\ WordsPerMinute * k >= n
        /\ \A j \in 1..(k - 1) : WordsPerMinute * j < n

\* C4: the read_time_minutes of every returned record is
\* max(1, ceil(wordCount / 200)) for the number of words of content; 200
\* words give 1, 201 words give 2, no word gives 1.
C4_ReadTime ==
    \A c \in Calls :
        Succeeded(c) =>
            LET text == Input(c).content.v
                minutes == Output(c).read_time_minutes
            IN  /\ minutes = Num(ExpectedReadTime(Cardinality(WordStarts(text))))
                /\ text = WordsText(WordsPerMinute) => minutes = Num(1)
                /\ text = WordsText(WordsPerMinute + 1) => minutes = Num(2)
                /\ WordStarts(text) = {} => minutes = Num(1)

C4_Witness ==
    \E c \in Calls :
        /\ Succeeded(c)
        /\ Input(c).content = Str(WordsText(WordsPerMinute + 1))
        /\ Output(c).read_time_minutes = Num(2)

\* Empty, whitespace-only or absent
Blank(x) ==
    \/ x = Undefined
    \/ x = Null
    \/ IsString(x) /\ \A i \in 1..Len(x.v) : x.v[i] \in Whitespace

FirstChars(s, n) == [i \in 1..(IF Len(s) < n THEN Len(s) ELSE n) |-> s[i]]

SeoResolved(given, source, out, n) ==
    /\ (IsString(given) /\ ~Blank(given)) => out = given
    /\ Blank(given) => (IsString(out) /\ out.v = FirstChars(source.v, n))

\* C5: on every successful call the output seo_title is the given seo_title,
\* untrimmed, when that is non-empty after trimming, and the first 60
\* characters of heading when it is empty, whitespace-only or absent; the
\* same for seo_description, description and 160 characters.
C5_SeoResolution ==
    \A c \in Calls :
        Succeeded(c) =>
            /\ SeoResolved(Input(c).seo_title, Input(c).heading,
                           Output(c).seo_title, 60)
            /\ SeoResolved(Input(c).seo_description, Input(c).description,
                           Output(c).seo_description, 160)

C5_Witness ==
    \E c \in Calls :
        /\ Succeeded(c)
        /\ Input(c).seo_title = Str(<<" ", "\t">>)
        /\ Len(Input(c).heading.v) > 60
        /\ Len(Output(c).seo_title.v) = 60
        /\ Len(Input(c).description.v) > 160
        /\ Len(Output(c).seo_description.v) = 160

----------------------------------------------------------------------------
(* Identity, timestamps and the pass-through of attributes *)

\* C6: any two distinct successful calls return records with different id
\* values.
C6_UniqueIds ==
    \A a, b \in Calls :
        (a # b /\ Succeeded(a) /\ Succeeded(b)) => Output(a).id # Output(b).id

\* C7: a record returned by the creation path has no updated_at attribute,
\* whatever attributes the accepted candidate carries.
C7_NoUpdatedAt ==
    \A c \in Calls : Succeeded(c) => ~Has(Output(c), "updated_at")

\* C8 as claimed: every attribute of the candidate other than seo_title and
\* seo_description is in the returned record with the value supplied.
C8_AllAttributesKept ==
    \A c \in Calls :
        Succeeded(c) =>
            \A k \in Keys \ {"seo_title", "seo_description"} :
                Has(Input(c), k) => Output(c)[k] = Input(c)[k]

\* C8, amended: every attribute of the candidate other than seo_title,
\* seo_description and the three the handler computes (id, created_at,
\* read_time_minutes) is in the returned record with the value supplied,
\* and the record carries no other attribute beside those five.
C8_PassThrough ==
    \A c \in Calls :
        Succeeded(c) =>
            \A k \in Keys \ {"seo_title", "seo_description", "id",
                             "created_at", "read_time_minutes"} :
                Output(c)[k] = Input(c)[k]

C8_Witness ==
    \E c \in Calls :
        /\ Succeeded(c)
        /\ Input(c).author = Str(<<"a", "u">>)
        /\ Output(c).author = Str(<<"a", "u">>)
        /\ Output(c).heading = Input(c).heading
        /\ Has(Input(c), "id")
        /\ Output(c).id # Input(c).id

----------------------------------------------------------------------------
(* The course of a call *)

\* The stage of a call.  Deriving is passed inside the uninterrupted run of
\* Handle, so a call is seen to go from Validating to Completed in one step.
Stage(call) ==
    CASE call.pc = "delay" -> "Received"
      [] call.pc = "json" -> "Validating"
      [] call.pc = "done" /\ call.resp.status = 201 -> "Completed"
      [] OTHER -> "Rejected"

StageEdges ==
    {<<"Received", "Validating">>, <<"Validating", "Rejected">>,
     <<"Validating", "Completed">>}

CompletedResponse(r) ==
    /\ r.status = 201
    /\ r.success = TRUE
    /\ r.keys = {"success", "data", "message"}
    /\ r.message = CreatedMessage
    /\ Has(r.data, "id")

RejectedResponse(r, statuses) ==
    /\ r.status \in statuses
    /\ r.success = FALSE
    /\ r.keys = {"success", "error"}
    /\ NoRecord(r)

OneResponse ==
    \A c \in Calls :
        /\ ~Done(c) => (calls[c].sent = 0 /\ Resp(c) = NoResponse)
        /\ Done(c) =>
            /\ calls[c].sent = 1
            /\ \/ CompletedResponse(Resp(c))
               \/ RejectedResponse(Resp(c), {400, 500})

StageStep ==
    /\ Len(calls') >= Len(calls)
    /\ \A c \in Calls :
        \/ calls'[c] = calls[c]
        \/ <<Stage(calls[c]), Stage(calls'[c])>> \in StageEdges

Terminates == <>[](\A c \in 1..Len(calls) : calls[c].pc = "done")

CreatedAt(c) == ParseISO(Output(c).created_at.v)

\* C10 as claimed: of two successful calls, the one invoked first has the
\* created_at that is less or equal, also when the calls overlap.
C10_InvocationOrder ==
    \A a, b \in Calls :
        (a < b /\ Succeeded(a) /\ Succeeded(b)) => CreatedAt(a) <= CreatedAt(b)

\* C10, amended: the created_at values follow the order in which the handler
\* runs complete: the created_at of a call that completes is not earlier
\* than the created_at of any record returned before it (the system clock
\* not stepping back).  Calls that do not overlap complete in the order of
\* their invocations.
C10_CompletionOrder ==
    [][\A c \in Calls :
          (calls[c].pc = "json" /\ calls'[c].pc = "done"
                                /\ calls'[c].resp.status = 201)
          => \A d \in Calls :
                Succeeded(d) =>
                    CreatedAt(d) <= ParseISO(calls'[c].resp.data.created_at.v)
      ]_vars

C10_Witness ==
    \E a, b \in Calls :
        /\ a < b /\ Succeeded(a) /\ Succeeded(b)
        /\ CreatedAt(b) < CreatedAt(a)
        /\ CreatedAt(a) >= 1000

----------------------------------------------------------------------------
(* Faults and the independence of calls *)

\* A required field that is present but is not text
NotText(x) == ~EmptyOrAbsent(x) /\ ~IsString(x)

\* Input that the two checks do not reject although it is malformed: the body
\* cannot be parsed, or a required field is present but is not text.
Malformed(c) ==
    \/ ~Parsed(c)
    \/ /\ ~AnyRequiredMissing(Input(c))
       /\ ~ShortHeading(Input(c))
       /\ \E k \in {"heading", "description", "content"} : NotText(Input(c)[k])

ProcessingFailure(r) ==
    /\ r.status = 500
    /\ r.success = FALSE
    /\ r.keys = {"success", "error"}
    /\ r.error = InternalMessage
    /\ NoRecord(r)

\* C11: a call whose input is malformed and passed or escaped the two checks
\* (unparseable body, a required field present but not text) ends with the
\* processing failure, status 500 and {success: false, error: 'Internal
\* server error'}, and never with a 201 record.
C11_ProcessingFailure ==
    \A c \in Calls : (Done(c) /\ Malformed(c)) => ProcessingFailure(Resp(c))

\* The transport failure and the three failures of the handler, as the
\* caller of submitCMSContent gets them
HandlerFailures ==
    {Failure(400, MissingMessage), Failure(400, TooShortMessage),
     Failure(500, InternalMessage)}
HandlerFailureOutcomes ==
    {SubmitCMSContent(FetchResolved(r)) : r \in HandlerFailures}

\* C12: when the request did not reach the handler, submitCMSContent rejects
\* with an error that is none of the errors it rejects with for the three
\* failures of the handler (it differs from each in class and in message).
C12_TransportDistinct ==
    (form.settled.kind # "none" /\ form.transport) =>
        /\ form.settled.kind = "rejected"
        /\ \A o \in HandlerFailureOutcomes :
            /\ form.settled.error.name # o.error.name
            /\ form.settled.error.message # o.error.message

C12_Witness ==
    /\ form.transport
    /\ form.settled.kind = "rejected"
    /\ form.settled.error.name = "TypeError"
    /\ form.submitError = <<"Failed to fetch">>

\* The response of a call without what differs from call to call by design:
\* the id, created_at and the X-Request-Id header
Masked(r) ==
    [r EXCEPT !.requestId = <<>>,
              !.data = [@ EXCEPT !.id = Undefined, !.created_at = Undefined]]

\* The response to a body submitted alone to a handler that has seen no call
Alone(body) ==
    Masked(SubmitContent(body, StartTime, StartTime,
                         CHOOSE draw \in RandomDraws : TRUE))

FunctionOfCandidate ==
    \A c \in Calls : Done(c) => Masked(Resp(c)) = Alone(calls[c].body)

HandleFrame ==
    \A c \in Calls :
        (calls[c].pc = "json" /\ calls'[c].pc = "done")
        => \A d \in Calls \ {c} : calls'[d] = calls[d]

\* C13: the outcome of a call, the failure or the record apart from id and
\* created_at, is the outcome of its candidate submitted alone, whatever
\* calls came before it or overlap it; a call that ends, failed or not,
\* changes nothing but its own response (and the clock).
C13_Independent == []FunctionOfCandidate /\ [][HandleFrame]_vars

C13_Witness ==
    \E a, b \in Calls :
        /\ a < b
        /\ Done(a) /\ Resp(a).status = 500
        /\ Succeeded(b)
        /\ Masked(Resp(b)) = Alone(calls[b].body)

----------------------------------------------------------------------------
(* The form: what it renders *)

\* CMSForm.tsx:208-218
ButtonDisabled(f) == f.isSubmitting
ButtonLabel(f) == IF f.isSubmitting THEN "Saving..." ELSE "Save Content"

\* CMSForm.tsx:119-123, 126-130: the alerts; a null or empty text is falsy
SuccessShown(f) == f.submitSuccess
ErrorShown(f) ==
    IF f.submitError # <<>> /\ f.submitError[1] # "" THEN f.submitError ELSE <<>>

\* CMSForm.tsx:133-163: the lines of the confirmation view
ConfirmationView(f) ==
    IF f.submittedContent = <<>> THEN {}
    ELSE LET content == f.submittedContent[1]
         IN  {<<"ID", content.id>>, <<"Created", content.created_at>>,
              <<"Read Time", content.read_time_minutes>>}
             \cup (IF Truthy(content.updated_at)
                   THEN {<<"Last Updated", content.updated_at>>} ELSE {})

\* CMSForm.tsx:221-236
ValidationShown(f) == f.errors # {}

Pending == form.pending # <<>>
Unsatisfied(v) == \E k \in FieldNames : ~FieldValid(k, v)

\* C14: onSubmit is invoked once by a submit gesture with schema-valid data,
\* and only by one made while no invocation is pending and the button is
\* enabled; while the invocation is pending the button is disabled and
\* shows 'Saving...'; after it settled, resolved or rejected, the button is
\* enabled and shows 'Save Content'.
C14_OnePendingInvocation ==
    /\ [](Pending => (ButtonDisabled(form) /\ ButtonLabel(form) = "Saving..."))
    /\ [](~Pending => (~ButtonDisabled(form)
                       /\ ButtonLabel(form) = "Save Content"))
    /\ [][form'.invocations # form.invocations =>
            /\ form'.invocations = form.invocations + 1
            /\ ~Pending
            /\ ~ButtonDisabled(form)
            /\ ~Unsatisfied(form.values)
            /\ form'.pending = <<form.values>>]_vars
    /\ [][(Submit /\ ~Unsatisfied(form.values)) =>
            form'.invocations = form.invocations + 1]_vars

C14_Witness ==
    /\ form.invocations = 2
    /\ form.settled.kind = "rejected"
    /\ ~Pending
    /\ ~ButtonDisabled(form)
    /\ form.submittedContent = <<>>

\* C15: a submit gesture on values that do not satisfy the schema invokes
\* nothing: no request is pending after it that was not before, the count of
\* invocations is unchanged, and the validation errors are shown.
C15_InvalidNeverSubmitted ==
    /\ [][Unsatisfied(form.values) =>
            /\ form'.invocations = form.invocations
            /\ (~Pending => form'.pending = <<>>)]_vars
    /\ [][(Submit /\ Unsatisfied(form.values)) =>
            (ValidationShown(form') /\ form'.errors = SchemaErrors(form.values))]_vars

C15_Witness ==
    /\ ValidationShown(form)
    /\ form.errors = {"tags"}
    /\ form.invocations = 0
    /\ ~Pending

\* C16: after a submission settled and until the next one starts, the form
\* shows one outcome: after a rejection the message of the error, as it is,
\* and no confirmation view; after a success the confirmation view with the
\* id, created_at and read_time_minutes of the returned record (updated_at
\* only if the record has it) and no error.  Starting a submission clears
\* the error, the success flag and the confirmation.
C16_OneOutcomeShown ==
    /\ [](form.settled.kind = "rejected" =>
            /\ ErrorShown(form) = <<form.settled.error.message>>
            /\ ConfirmationView(form) = {}
            /\ ~SuccessShown(form))
    /\ [](form.settled.kind = "resolved" =>
            /\ ErrorShown(form) = <<>>
            /\ LET data == form.settled.data
               IN  ConfirmationView(form) =
                       {<<"ID", data.id>>, <<"Created", data.created_at>>,
                        <<"Read Time", data.read_time_minutes>>}
                       \cup (IF Has(data, "updated_at")
                             THEN {<<"Last Updated", data.updated_at>>}
                             ELSE {}))
    /\ [][form'.invocations # form.invocations =>
            /\ ErrorShown(form') = <<>>
            /\ ~SuccessShown(form')
            /\ ConfirmationView(form') = {}]_vars

C16_Witness ==
    /\ form.invocations = 2
    /\ form.settled.kind = "resolved"
    /\ ConfirmationView(form) # {}
    /\ ErrorShown(form) = <<>>

----------------------------------------------------------------------------
(* The slug field *)

Heading == form.values.heading
Slug == form.values.slug

\* A step in which the user edits the heading: the heading changes and no
\* submission settles (a success resets the whole form)
HeadingEdited ==
    /\ form'.values.heading # Heading
    /\ form'.pending = form.pending

AutoGeneration == ~form.isSlugManuallyEdited /\ ~form'.isSlugManuallyEdited

\* C17 as claimed: while the slug was not manually edited, after every change
\* of the heading the slug is generateSlug(heading).
C17_SlugFollowsHeading ==
    [][(AutoGeneration /\ HeadingEdited) =>
          form'.values.slug = generateSlug(Str(form'.values.heading))]_vars

\* C17, amended: while the slug was not manually edited, after every change
\* of the heading to a text that is not empty the slug is
\* generateSlug(heading); when the heading is emptied the slug stays as it
\* was.
C17_SlugFollowsNonEmptyHeading ==
    [][(AutoGeneration /\ HeadingEdited) =>
          IF form'.values.heading # <<>>
          THEN form'.values.slug = generateSlug(Str(form'.values.heading))
          ELSE form'.values.slug = Slug]_vars

C17_Witness ==
    /\ ~form.isSlugManuallyEdited
    /\ Heading = Text("Hi")
    /\ Slug = <<"h", "i">>

\* C18: once the user has typed in the slug field, a change of the heading
\* leaves the slug as it is, for every heading edit until the refresh button
\* is clicked.
C18_ManualSlugKept ==
    [][(form.isSlugManuallyEdited /\ HeadingEdited) =>
          /\ form'.values.slug = Slug
          /\ form'.isSlugManuallyEdited]_vars

C18_Witness ==
    /\ form.isSlugManuallyEdited
    /\ Slug = Text("my-slug")
    /\ Heading = Text("Hi")
    /\ form.invocations = 0

\* C19 as claimed: the refresh button sets the slug to generateSlug(heading)
\* and switches auto-generation on, and every later change of the heading
\* updates the slug.
C19_RefreshThenEveryHeading ==
    /\ [][RefreshSlug =>
            /\ form'.values.slug = generateSlug(Str(Heading))
            /\ ~form'.isSlugManuallyEdited]_vars
    /\ [][(AutoGeneration /\ HeadingEdited) =>
            form'.values.slug = generateSlug(Str(form'.values.heading))]_vars

\* C19, amended: the refresh button sets the slug to generateSlug(heading),
\* also for an empty heading, leaves the heading, and switches
\* auto-generation on: from then on, until the user types in the slug field,
\* every change of the heading to a text that is not empty sets the slug to
\* generateSlug(heading).
C19_RefreshSlug ==
    /\ [][RefreshSlug =>
            /\ form'.values.slug = generateSlug(Str(Heading))
            /\ form'.values.heading = Heading
            /\ ~form'.isSlugManuallyEdited]_vars
    /\ [][(AutoGeneration /\ HeadingEdited /\ form'.values.heading # <<>>) =>
            form'.values.slug = generateSlug(Str(form'.values.heading))]_vars

\* The slug error of a refused submit is that of a typed slug, so
\* auto-generation has been switched on again by the refresh button
C19_Witness ==
    /\ form.errors = {"slug"}
    /\ ~form.isSlugManuallyEdited
    /\ Heading = Text("Hi")
    /\ Slug = <<"h", "i">>

\* C20: what generateSlug returns is the empty string or a value the form
\* schema accepts as slug: lowercase letters and digits in groups separated
\* by single hyphens.
C20_SlugAcceptable ==
    slugCall.pc = "returned" =>
        (slugCall.result = <<>> \/ SlugPattern(slugCall.result))

----------------------------------------------------------------------------
(* Initial data *)

\* C21: a form rendered with initialData holds, in every field that
\* initialData gives, the value given, and in every other field its default
\* value, at its first render and after the effects of that render: it is
\* the user's edits that change a field.
C21_InitialDataHeld ==
    /\ [](~form.effectRun =>
            \A k \in FieldNames :
                form.values[k] = IF k \in form.initialData.given
                                 THEN form.initialData.data[k]
                                 ELSE defaultFormValues[k])
    /\ [][(~form.effectRun /\ form'.effectRun) => form'.values = form.values]_vars

----------------------------------------------------------------------------
(* Tags *)

Tags == form.values.tags
NoDuplicate(list) ==
    \A i, j \in 1..Len(list) : list[i] = list[j] => i = j
Without(list, index) ==
    SubSeq(list, 1, index - 1) \o SubSeq(list, index + 1, Len(list))

\* C22: the tags list, duplicate-free at the start, has no duplicate after
\* any additions and deletions.  Enter on a text whose trimmed form is in the
\* list leaves the list as it is, Enter on any other text that is not blank
\* appends the trimmed text, Enter on a blank text adds nothing, and the
\* delete icon of a chip removes the tag at that chip's position and no other.
C22_TagsDuplicateFree ==
    /\ []NoDuplicate(Tags)
    /\ [][AddTag =>
            form'.values.tags =
                IF \E i \in 1..Len(Tags) : Tags[i] = Trim(form.tagInput)
                THEN Tags ELSE Tags \o <<Trim(form.tagInput)>>]_vars
    /\ [][EnterOnBlank => form'.values.tags = Tags]_vars
    /\ [][Len(form'.values.tags) = Len(Tags) - 1 =>
            \E index \in 1..Len(Tags) :
                form'.values.tags = Without(Tags, index)]_vars

C22_Witness ==
    /\ Tags = << <<"u">>, <<"T">>, <<"t">> >>
    /\ form.tagInput = <<>>

----------------------------------------------------------------------------
(* The success message *)

Last(list) == list[Len(list)]

\* C23: the step in which a submission succeeds shows the success message
\* and starts a timer of 3 seconds; the message is shown only while a timer
\* of a success is running, the timer of the latest success has at most its
\* 3 seconds left, and a shown message is hidden again whatever the user
\* does or does not do.
C23_SuccessShownThenHidden ==
    /\ [][(Settle /\ form'.settled.kind = "resolved") =>
            /\ form'.submitSuccess
            /\ Len(form'.timers) = Len(form.timers) + 1
            /\ Last(form'.timers) = HideDelay]_vars
    /\ [](form.submitSuccess =>
            /\ form.timers # <<>>
            /\ Last(form.timers) \in 0..HideDelay)
    /\ form.submitSuccess ~> ~form.submitSuccess

C23_Witness ==
    /\ form.submittedContent # <<>>
    /\ ~form.isSubmitting
    /\ form.invocations = 1
    /\ form.timers = <<>>
    /\ ~form.submitSuccess

----------------------------------------------------------------------------
(* The form schema and the handler *)

\* C24: a candidate that passes the form schema is accepted by the handler:
\* the response to a submission the form has sent is never a 400.
C24_SchemaValidAccepted ==
    (form.pending # <<>> /\ SchemaErrors(form.pending[1]) = {}) =>
        \A draw \in RandomDraws :
            SubmitContent(FormBody(form.pending[1]), now, now, draw).status # 400

----------------------------------------------------------------------------
(* The resolved SEO fields *)

NonBlank(x) == IsString(x) /\ Trim(x.v) # <<>>

\* C25: in every record the handler returns, seo_title and seo_description
\* are texts that are not empty after trimming.
C25_SeoNonBlank ==
    \A c \in Calls :
        Succeeded(c) =>
            /\ NonBlank(Output(c).seo_title)
            /\ NonBlank(Output(c).seo_description)

----------------------------------------------------------------------------
(* The attributes the handler owns *)

\* C26: id, created_at and read_time_minutes of a returned record are the
\* values the handler computes in that call, from the clock, the random
\* draw and the content; they do not depend on what the candidate carries
\* under these names.
C26_ServerOwnedComputed ==
    [][\A c \in Calls :
          (calls[c].pc = "json" /\ calls'[c].pc = "done"
                                /\ calls'[c].resp.status = 201)
          => LET record == calls'[c].resp.data
             IN  /\ \E draw \in RandomDraws : record.id = MakeId(now, draw)
                 /\ record.created_at = Str(ToISOString(now'))
                 /\ record.read_time_minutes =
                        Num(ReadTime(WordCount(Input(c).content.v)))
      ]_vars

C26_Witness ==
    \E c \in Calls :
        /\ Succeeded(c)
        /\ Input(c).id = Str(<<"x">>)
        /\ Input(c).created_at = Str(ToISOString(0))
        /\ Input(c).read_time_minutes = Num(99)
        /\ Output(c).id \in {MakeId(t, <<"i">>) : t \in StartTime..now}
        /\ ParseISO(Output(c).created_at.v) >= StartTime
        /\ Output(c).read_time_minutes = Num(1)

----------------------------------------------------------------------------
(* Successes in quick succession *)

\* C27: after a submission succeeded, and as long as the user starts no
\* other submission, the success message is visible while less than 3
\* seconds have passed since that success, also when an earlier success
\* lies less than 3 seconds before it.
C27_VisibleForOwnDelay ==
    (/\ form.settled.kind = "resolved"
     /\ ~form.isSubmitting
     /\ form.timers # <<>>
     /\ Last(form.timers) > 0)
    => form.submitSuccess

----------------------------------------------------------------------------
(* The field values after a submission *)

\* A step in which the pending submission settles
Settles == form.pending # <<>> /\ form'.pending = <<>>

\* C28: a submission that fails leaves every field value as it is; a step
\* resets the form to its default values only when it is the success of a
\* submission, and a success does reset it.
C28_ResetOnlyAfterSuccess ==
    /\ [][(Settles /\ form'.settled.kind = "rejected") =>
            form'.values = form.values]_vars
    /\ [][(Settles /\ form'.settled.kind = "resolved") =>
            form'.values = defaultFormValues]_vars
    /\ [][(form'.values = defaultFormValues /\ form'.values # form.values
           /\ \E k, l \in FieldNames :
                 k # l /\ form'.values[k] # form.values[k]
                       /\ form'.values[l] # form.values[l]
                       /\ {k, l} # {"heading", "slug"})
          => (Settles /\ form'.settled.kind = "resolved")]_vars

C28_Witness ==
    /\ form.settled.kind = "rejected"
    /\ form.submitError = <<TooShortMessage>>
    /\ form.values = [validInitialData EXCEPT !.heading = Text("Hi"),
                                              !.slug = <<"h", "i">>]
    /\ form.pending = <<>>

----------------------------------------------------------------------------
(* The slug after the reset *)

\* The values after the user types text as heading into the form f: the
\* change and the effect that follows it (BasicInfoFields.tsx:89-96)
HeadingTyped(f, text) ==
    useEffect([f.values EXCEPT !.heading = text], f.isSlugManuallyEdited)

\* C29: when a success has reset the form, auto-generation is active: a
\* heading typed next sets the slug to generateSlug(heading), also when the
\* slug had been manually edited before the submission.
C29_AutoGenerationAfterReset ==
    [][(Settles /\ form'.settled.kind = "resolved") =>
          \A text \in HeadingTexts \ {<<>>} :
              HeadingTyped(form', text).slug = generateSlug(Str(text))]_vars
====
